---- MODULE Spec2Model ----
(***************************************************************************)
(* Model of job_search_emailer.py: main() queries the search provider once *)
(* per configured query, deduplicates the aggregated results by link,      *)
(* formats them as HTML and sends one email through an SMTP session.       *)
(***************************************************************************)
EXTENDS Integers, Sequences, FiniteSets, TLC

\* len(SEARCH_QUERIES)
NumQueries == 4

(* ---------- bounds of the model ---------- *)
\* longest aggregated list given to the dedup stage on its own
MaxLen == 4
\* largest value of the cap MAX_RESULTS that is explored
MaxCap == 2

(* ---------- Python values ---------- *)
\* Python's None (dict.get of a missing key, an unset environment variable)
None == "<None>"

\* truth value of a str-or-None value: None and "" are falsy
Truthy(v) == v # None /\ v # ""

\* dict.get(key): the value, or None when the key is missing
Get(e, k) == IF k \in DOMAIN e THEN e[k] ELSE None

\* Python's `a or b`
OrElse(a, b) == IF Truthy(a) THEN a ELSE b

SeqsUpTo(S, n) == UNION {[1..k -> S] : k \in 0..n}

(* ---------- provider responses ---------- *)
\* entries of a response's organic_results array: fields may be missing,
\* links may repeat or be empty, unknown fields may be present
EntryA == [title |-> "A", link |-> "x", snippet |-> "s"]
EntryB == [title |-> "B", link |-> "x"]
EntryC == [link |-> "y", snippet |-> "t"]
EntryD == [title |-> "D", link |-> "z", snippet |-> "u", position |-> "1"]
EntryE == [title |-> "E", link |-> "", snippet |-> "s"]
EntryF == [title |-> "F"]
RawEntries == {EntryA, EntryB, EntryC, EntryD, EntryE, EntryF}

\* the JSON bodies search_with_serpapi can return: without an
\* organic_results array, with an empty one, with entries
Responses ==
    { [search_metadata |-> "Success"],
      [organic_results |-> <<>>],
      [organic_results |-> <<EntryA, EntryB>>],
      [organic_results |-> <<EntryE, EntryC>>],
      [organic_results |-> <<EntryF, EntryD, EntryA>>] }

\* values of the environment variable SERPAPI_KEY: unset, empty, set
ApiKeys == {None, "", "k"}

extract_links_from_serpapi_json(js) ==
    LET es == IF "organic_results" \in DOMAIN js THEN js.organic_results ELSE <<>>
    IN  [i \in 1..Len(es) |->
            [title   |-> Get(es[i], "title"),
             link    |-> Get(es[i], "link"),
             snippet |-> Get(es[i], "snippet")]]

\* the items extraction can produce from the entries
Items == {extract_links_from_serpapi_json([organic_results |-> <<e>>])[1] : e \in RawEntries}

(* ---------- deduplication (main, lines 105-113) ---------- *)
\* line 109: the condition under which an item is kept
KeepNoSeenCheck(link, seenLinks) == Truthy(link)
Keep(link, seenLinks) == Truthy(link) /\ link \notin seenLinks

\* line 111: dedup.append(item)
AppendKeptFront(d, item) == <<item>> \o d
AppendKept(d, item) == Append(d, item)

\* line 112: the break condition
CapReachedStrict(d, cap) == Len(d) > cap
CapReached(d, cap) == Len(d) >= cap

(* ---------- format_email_html ---------- *)
\* the document as its parts: the "no results" paragraph, or the table with
\* its data rows (cells title, snippet, href)
Row(r) == [title   |-> OrElse(r.title, "No title"),
           snippet |-> OrElse(r.snippet, ""),
           href    |-> OrElse(r.link, "")]

format_email_html_always_table(results) ==
    [noResults |-> FALSE, table |-> TRUE,
     rows |-> [i \in 1..Len(results) |-> Row(results[i])]]
format_email_html(results) ==
    IF results = <<>>
    THEN [noResults |-> TRUE, table |-> FALSE, rows |-> <<>>]
    ELSE [noResults |-> FALSE, table |-> TRUE,
          rows |-> [i \in 1..Len(results) |-> Row(results[i])]]

NoHtml == [noResults |-> FALSE, table |-> FALSE, rows |-> <<>>]

(* ---------- state ---------- *)
VARIABLES
    SERPAPI_KEY,   \* configuration: the provider API key
    MAX_RESULTS,   \* configuration: the cap on the deduplicated list
    pc,            \* position of main
    qi,            \* index into SEARCH_QUERIES of the next query
    requests,      \* the provider requests issued so far (query indices)
    responses,     \* per query: what its request produced
    aggregated,    \* main's aggregated list
    idx,           \* position of the dedup loop in aggregated
    seen,          \* main's seen set
    dedup,         \* main's dedup list
    html,          \* the formatted document
    smtp,          \* the SMTP session: "none", "open" or "closed"
    smtpSteps,     \* the commands attempted inside the session, in order
    bodyRaised,    \* whether the body of the with block raised
    sendResult,    \* the call of send_email_html: "pending", "returned", "raised"
    sendAttempts,  \* number of calls of send_email_html
    log            \* the lines printed

vars == <<SERPAPI_KEY, MAX_RESULTS, pc, qi, requests, responses, aggregated,
          idx, seen, dedup, html, smtp, smtpSteps, bodyRaised, sendResult,
          sendAttempts, log>>

config == <<SERPAPI_KEY, MAX_RESULTS>>
queryVars == <<qi, requests, responses, aggregated>>
dedupVars == <<idx, seen, dedup>>
smtpVars == <<smtp, smtpSteps, bodyRaised, sendResult, sendAttempts>>

Queries == 1..NumQueries

Line(text, arg) == [line |-> text, arg |-> arg]

\* what the request of one query produced
Pending == [status |-> "pending", items |-> <<>>]
Raised == [status |-> "error", items |-> <<>>]
Returned(rs) == [status |-> "ok", items |-> rs]

InitLocals ==
    /\ pc = "start"
    /\ qi = 1
    /\ requests = <<>>
    /\ responses = [q \in Queries |-> Pending]
    /\ aggregated = <<>>
    /\ idx = 1
    /\ seen = {}
    /\ dedup = <<>>
    /\ html = NoHtml
    /\ smtp = "none"
    /\ smtpSteps = <<>>
    /\ bodyRaised = FALSE
    /\ sendResult = "pending"
    /\ sendAttempts = 0
    /\ log = <<>>

\* the program: MAX_RESULTS is a positive constant
Init ==
    /\ SERPAPI_KEY \in ApiKeys
    /\ MAX_RESULTS \in 1..MaxCap
    /\ InitLocals

\* the dedup and format stages on their own: main at line 105 with an
\* arbitrary aggregated list
DedupStart ==
    /\ SERPAPI_KEY \in ApiKeys
    /\ pc = "dedup"
    /\ qi = 1
    /\ requests = <<>>
    /\ responses = [q \in Queries |-> Pending]
    /\ aggregated \in SeqsUpTo(Items, MaxLen)
    /\ idx = 1
    /\ seen = {}
    /\ dedup = <<>>
    /\ html = NoHtml
    /\ smtp = "none"
    /\ smtpSteps = <<>>
    /\ bodyRaised = FALSE
    /\ sendResult = "pending"
    /\ sendAttempts = 0
    /\ log = <<>>

InitDedup ==
    /\ MAX_RESULTS \in 1..MaxCap
    /\ DedupStart

\* the dedup loop under every non-negative cap
InitDedupAnyCap ==
    /\ MAX_RESULTS \in 0..MaxCap
    /\ DedupStart

(* ---------- main: the query loop (lines 92-103) ---------- *)
\* line 93: `if SERPAPI_KEY`
KeyConfiguredIfSet(k) == k # None
KeyConfigured(k) == Truthy(k)

\* where the loop goes after query q: the next query, or the dedup stage
AfterQuery(q) == IF q < NumQueries THEN "query" ELSE "dedup"

\* lines 92-94: the key is configured, enter the loop
EnterQueries ==
    /\ pc = "start"
    /\ KeyConfigured(SERPAPI_KEY)
    /\ pc' = "query"
    /\ UNCHANGED <<config, queryVars, dedupVars, html, smtpVars, log>>

\* lines 101-103: no key, log the advisory and go on
NoApiKeyExit ==
    /\ pc = "start"
    /\ ~KeyConfigured(SERPAPI_KEY)
    /\ log' = Append(log, Line("No SERPAPI_KEY provided", 0))
    /\ pc' = "done"
    /\ UNCHANGED <<config, queryVars, dedupVars, html, smtpVars>>
NoApiKey ==
    /\ pc = "start"
    /\ ~KeyConfigured(SERPAPI_KEY)
    /\ log' = Append(log, Line("No SERPAPI_KEY provided", 0))
    /\ pc' = "dedup"
    /\ UNCHANGED <<config, queryVars, dedupVars, html, smtpVars>>

\* lines 96-98: the request succeeds and its body parses
QuerySuccess ==
    /\ pc = "query"
    /\ \E js \in Responses :
          LET rs == extract_links_from_serpapi_json(js) IN
          /\ requests' = Append(requests, qi)
          /\ responses' = [responses EXCEPT ![qi] = Returned(rs)]
          /\ aggregated' = aggregated \o rs
    /\ qi' = qi + 1
    /\ pc' = AfterQuery(qi)
    /\ UNCHANGED <<config, dedupVars, html, smtpVars, log>>

\* lines 96-100: requests.get, raise_for_status, r.json or the extraction
\* raises; the error is logged and the loop goes on
QueryErrorAborts ==
    /\ pc = "query"
    /\ requests' = Append(requests, qi)
    /\ responses' = [responses EXCEPT ![qi] = Raised]
    /\ pc' = "crashed"
    /\ UNCHANGED <<config, qi, aggregated, dedupVars, html, smtpVars, log>>
QueryError ==
    /\ pc = "query"
    /\ requests' = Append(requests, qi)
    /\ responses' = [responses EXCEPT ![qi] = Raised]
    /\ log' = Append(log, Line("SerpAPI error for query", qi))
    /\ qi' = qi + 1
    /\ pc' = AfterQuery(qi)
    /\ UNCHANGED <<config, aggregated, dedupVars, html, smtpVars>>

(* ---------- main: the dedup loop (lines 105-113) ---------- *)
\* one iteration of `for item in aggregated`
DedupIter ==
    /\ pc = "dedup"
    /\ idx <= Len(aggregated)
    /\ LET item == aggregated[idx]
           link == item.link
           kept == Keep(link, seen)
           d    == IF kept THEN AppendKept(dedup, item) ELSE dedup
       IN  /\ seen' = IF kept THEN seen \cup {link} ELSE seen
           /\ dedup' = d
           /\ IF CapReached(d, MAX_RESULTS)
              THEN pc' = "format" /\ idx' = idx
              ELSE pc' = "dedup" /\ idx' = idx + 1
    /\ UNCHANGED <<config, queryVars, html, smtpVars, log>>

\* the loop runs out of items
DedupExhausted ==
    /\ pc = "dedup"
    /\ idx > Len(aggregated)
    /\ pc' = "format"
    /\ UNCHANGED <<config, queryVars, dedupVars, html, smtpVars, log>>

(* ---------- main: format (lines 114-115) ---------- *)
Format ==
    /\ pc = "format"
    /\ html' = format_email_html(dedup)
    /\ pc' = "send"
    /\ UNCHANGED <<config, queryVars, dedupVars, smtpVars, log>>

(* ---------- send_email_html (lines 79-88) ---------- *)
\* where a command of the with body leads: on when it succeeded, to the
\* exit of the with block when it raised
ThenIgnoringErrors(ok, next) == next
Then(ok, next) == IF ok THEN next ELSE "exit"

\* one command attempted inside the session, and whether it succeeded
Step(cmd, ok) == [cmd |-> cmd, ok |-> ok]

\* the session after the with block is left
SessionAfterExitLeaky(raised) == IF raised THEN "open" ELSE "closed"
SessionAfterExit(raised) == "closed"

\* lines 116-117, 80-85: the call; the message is built and the connection
\* is made, or the constructor raises
Connect ==
    /\ pc = "send"
    /\ sendAttempts' = sendAttempts + 1
    /\ \E ok \in BOOLEAN :
          IF ok THEN smtp' = "open" /\ pc' = "starttls" /\ sendResult' = sendResult
                ELSE smtp' = smtp /\ pc' = "except" /\ sendResult' = "raised"
    /\ UNCHANGED <<config, queryVars, dedupVars, html, smtpSteps, bodyRaised, log>>

\* line 86
StartTls ==
    /\ pc = "starttls"
    /\ \E ok \in BOOLEAN :
          /\ smtpSteps' = Append(smtpSteps, Step("starttls", ok))
          /\ pc' = Then(ok, "login")
          /\ bodyRaised' = ~ok
    /\ UNCHANGED <<config, queryVars, dedupVars, html, smtp, sendResult,
                   sendAttempts, log>>

\* line 87
Login ==
    /\ pc = "login"
    /\ \E ok \in BOOLEAN :
          /\ smtpSteps' = Append(smtpSteps, Step("login", ok))
          /\ pc' = Then(ok, "sendmail")
          /\ bodyRaised' = ~ok
    /\ UNCHANGED <<config, queryVars, dedupVars, html, smtp, sendResult,
                   sendAttempts, log>>

\* line 88: msg.as_string() and the transmission
Sendmail ==
    /\ pc = "sendmail"
    /\ \E ok \in BOOLEAN :
          /\ smtpSteps' = Append(smtpSteps, Step("sendmail", ok))
          /\ pc' = Then(ok, "exit")
          /\ bodyRaised' = ~ok
    /\ UNCHANGED <<config, queryVars, dedupVars, html, smtp, sendResult,
                   sendAttempts, log>>

\* line 85, leaving the with block: QUIT is sent and the connection is
\* closed; the call raises when the body raised or QUIT is refused
SmtpExit ==
    /\ pc = "exit"
    /\ smtp' = SessionAfterExit(bodyRaised)
    /\ \E quitOk \in BOOLEAN :
          IF bodyRaised \/ ~quitOk
          THEN pc' = "except" /\ sendResult' = "raised"
          ELSE pc' = "sent" /\ sendResult' = "returned"
    /\ UNCHANGED <<config, queryVars, dedupVars, html, smtpSteps, bodyRaised,
                   sendAttempts, log>>

(* ---------- main: the final line (lines 118-120) ---------- *)
LogSuccess ==
    /\ pc = "sent"
    /\ log' = Append(log, Line("Email sent, items:", Len(dedup)))
    /\ pc' = "done"
    /\ UNCHANGED <<config, queryVars, dedupVars, html, smtpVars>>

\* lines 119-120: `except Exception`
LogFailureUncaught ==
    /\ pc = "except"
    /\ pc' = "crashed"
    /\ UNCHANGED <<config, queryVars, dedupVars, html, smtpVars, log>>
LogFailure ==
    /\ pc = "except"
    /\ log' = Append(log, Line("Failed to send email:", 0))
    /\ pc' = "done"
    /\ UNCHANGED <<config, queryVars, dedupVars, html, smtpVars>>

Next ==
    \/ EnterQueries
    \/ NoApiKey
    \/ QuerySuccess
    \/ QueryError
    \/ DedupIter
    \/ DedupExhausted
    \/ Format
    \/ Connect
    \/ StartTls
    \/ Login
    \/ Sendmail
    \/ SmtpExit
    \/ LogSuccess
    \/ LogFailure

Spec == Init /\ [][Next]_vars

NextDedup ==
    \/ DedupIter
    \/ DedupExhausted
    \/ Format

SpecDedup == InitDedup /\ [][NextDedup]_vars

SpecDedupAnyCap == InitDedupAnyCap /\ [][NextDedup]_vars

TypeOK ==
    /\ pc \in {"start", "query", "dedup", "format", "send", "starttls", "login",
               "sendmail", "exit", "sent", "except", "done", "crashed"}
    /\ qi \in 1..(NumQueries + 1)
    /\ idx \in 1..(Len(aggregated) + 1)
    /\ smtp \in {"none", "open", "closed"}
    /\ sendAttempts \in 0..1
    /\ sendResult \in {"pending", "returned", "raised"}
    /\ Len(smtpSteps) <= 3

(* ======================= properties ======================= *)
LinksOf(s) == {s[i].link : i \in 1..Len(s)}

\* the part of aggregated the dedup loop has gone through
BeforeDedup == pc \in {"start", "query"}
DedupFinished == pc \notin {"start", "query", "dedup", "crashed"}
Scanned ==
    IF BeforeDedup THEN <<>>
    ELSE IF pc = "dedup" THEN SubSeq(aggregated, 1, idx - 1)
    ELSE aggregated

\* reference deduplication: the positions of the first occurrences of the
\* non-empty links of s, in order, cut to the first cap of them
FirstOccurrences(s) ==
    {i \in 1..Len(s) :
        /\ s[i].link \notin {None, ""}
        /\ \A j \in 1..(i - 1) : s[j].link # s[i].link}
Reference(s, cap) ==
    LET K == FirstOccurrences(s)
        n == IF Cardinality(K) < cap THEN Cardinality(K) ELSE cap
    IN  [k \in 1..n |->
            s[CHOOSE i \in K : Cardinality({j \in K : j < i}) = k - 1]]

KeySet == SERPAPI_KEY \notin {None, ""}
InOrder(n) == [i \in 1..n |-> i]

RECURSIVE ResultsOfSucceeded(_)
ResultsOfSucceeded(q) ==
    IF q = 0 THEN <<>>
    ELSE ResultsOfSucceeded(q - 1)
            \o (IF responses[q].status = "ok" THEN responses[q].items ELSE <<>>)

Logged(text) == {i \in 1..Len(log) : log[i].line = text}

\* C1: the deduplicated list never holds two entries with the same link, and
\* every entry in it has a non-empty link.
C1_NoDuplicateLinks ==
    /\ \A i, j \in 1..Len(dedup) : i # j => dedup[i].link # dedup[j].link
    /\ \A i \in 1..Len(dedup) : dedup[i].link \notin {None, ""}

\* C1 witness: the loop ended after meeting a repeated link and an entry
\* without a usable link, and kept at least two entries.
C1_Witness ==
    /\ pc = "send"
    /\ Len(dedup) >= 2
    /\ \E i, j \in 1..idx : i < j /\ j <= Len(aggregated)
            /\ aggregated[i].link = aggregated[j].link
            /\ aggregated[i].link \notin {None, ""}
    /\ \E k \in 1..idx : k <= Len(aggregated) /\ aggregated[k].link \in {None, ""}

C3_MatchesReference ==
    /\ dedup = Reference(Scanned, MAX_RESULTS)
    /\ seen = LinksOf(dedup)
    /\ None \notin seen /\ "" \notin seen

\* C3 witness: a finished run in which an entry without a link came first, a
\* repeated link was dropped and the cap cut the scan short.
C3_Witness ==
    /\ pc = "send"
    /\ Len(aggregated) >= 3
    /\ aggregated[1].link \in {None, ""}
    /\ Len(dedup) = MAX_RESULTS
    /\ idx < Len(aggregated)
    /\ \E i, j \in 1..idx : i < j /\ aggregated[i].link = aggregated[j].link

\* C4: with a key configured, a failing query aborts nothing: every query is
\* still requested in order, aggregated is the concatenation of the results
\* of the queries that succeeded, and the finished run has formatted the
\* document and attempted the send.
C4_ProviderFailureTolerated ==
    KeySet =>
        /\ pc # "crashed"
        /\ aggregated = ResultsOfSucceeded(qi - 1)
        /\ \A q \in 1..(qi - 1) : responses[q].status # "pending"
        /\ (~BeforeDedup => requests = InOrder(NumQueries))
        /\ (pc = "done" =>
                /\ DedupFinished
                /\ html # NoHtml
                /\ sendAttempts = 1)

\* C4 witness: the first query failed, a later one returned results, and
\* the run went on to the send.
C4_Witness ==
    /\ pc = "done"
    /\ responses[1].status = "error"
    /\ responses[NumQueries].status = "ok"
    /\ aggregated # <<>>
    /\ sendAttempts = 1

\* C5: a failed send is caught: main logs the failure line and not the
\* success line and ends normally; a successful send logs the success line
\* with the number of deduplicated items; exactly one of the two is logged.
C5_FinalLine ==
    /\ pc # "crashed"
    /\ (smtp = "none" /\ sendAttempts = 1 /\ pc # "send" => sendResult = "raised")
    /\ (bodyRaised /\ pc \notin {"exit"} => sendResult = "raised")
    /\ (pc = "done" =>
          /\ sendResult # "pending"
          /\ Cardinality(Logged("Email sent, items:"))
                + Cardinality(Logged("Failed to send email:")) = 1
          /\ (sendResult = "raised" =>
                log[Len(log)] = Line("Failed to send email:", 0))
          /\ (sendResult = "returned" =>
                log[Len(log)] = Line("Email sent, items:", Len(dedup))))

\* C5 witness: login failed and the run ended with the failure line.
C5_Witness ==
    /\ pc = "done"
    /\ sendResult = "raised"
    /\ Len(smtpSteps) = 2
    /\ ~smtpSteps[2].ok
    /\ Logged("Failed to send email:") # {}

\* C6: once send_email_html has returned or raised, no SMTP session is open.
C6_SessionClosed ==
    /\ (sendResult # "pending" => smtp # "open")
    /\ (sendResult # "pending" /\ smtpSteps # <<>> => smtp = "closed")
    /\ (pc = "done" => smtp # "open")

\* C6 witness: sendmail failed inside the session and the session is closed.
C6_Witness ==
    /\ sendResult = "raised"
    /\ Len(smtpSteps) = 3
    /\ ~smtpSteps[3].ok
    /\ smtp = "closed"

\* C7: inside the session the commands are STARTTLS, login, sendmail in this
\* order, and a command is attempted only after every earlier one succeeded.
SmtpOrder == <<"starttls", "login", "sendmail">>
C7_StepOrder ==
    /\ Len(smtpSteps) <= Len(SmtpOrder)
    /\ \A i \in 1..Len(smtpSteps) :
          /\ smtpSteps[i].cmd = SmtpOrder[i]
          /\ \A j \in 1..(i - 1) : smtpSteps[j].ok
    /\ (smtpSteps # <<>> => smtp # "none")

\* C7 witness: STARTTLS failed and nothing else was attempted in the run.
C7_Witness ==
    /\ pc = "done"
    /\ smtpSteps = <<Step("starttls", FALSE)>>

\* C8: without a key no request is issued, aggregated stays empty and the
\* advisory is logged; with a key each query is requested exactly once, in
\* configured order, and a failed query is not requested again.
C8_RequestCount ==
    /\ (~KeySet =>
          /\ requests = <<>>
          /\ aggregated = <<>>
          /\ (pc # "start" =>
                Len(log) >= 1 /\ log[1] = Line("No SERPAPI_KEY provided", 0)))
    /\ (KeySet =>
          /\ requests = InOrder(qi - 1)
          /\ Logged("No SERPAPI_KEY provided") = {}
          /\ (pc = "query" => qi <= NumQueries)
          /\ (pc \notin {"start", "query"} => Len(requests) = NumQueries))

\* C8 witness: every query failed and each was requested once.
C8_Witness ==
    /\ pc = "done"
    /\ \A q \in Queries : responses[q].status = "error"
    /\ requests = InOrder(NumQueries)

\* C9: the document carries the "no results" message exactly when the list
\* is empty, and otherwise a table with one data row per entry in list
\* order; an empty aggregated list gives the "no results" message.
C9_Formatting ==
    pc \in {"send", "starttls", "login", "sendmail", "exit", "sent", "except", "done"} =>
        /\ (html.noResults <=> dedup = <<>>)
        /\ (html.table <=> dedup # <<>>)
        /\ Len(html.rows) = Len(dedup)
        /\ \A i \in 1..Len(dedup) :
              /\ html.rows[i].href = dedup[i].link
              /\ html.rows[i].title =
                    (IF dedup[i].title \in {None, ""} THEN "No title" ELSE dedup[i].title)
              /\ html.rows[i].snippet =
                    (IF dedup[i].snippet = None THEN "" ELSE dedup[i].snippet)
        /\ (aggregated = <<>> => dedup = <<>> /\ html.noResults)

\* C9 witness: a table of two rows, one of them for an entry without title.
C9_Witness ==
    /\ pc = "send"
    /\ html.table
    /\ Len(html.rows) = 2
    /\ \E i \in 1..2 : dedup[i].title = None /\ html.rows[i].title = "No title"

\* C10: a run makes exactly one send attempt, after the queries and the
\* deduplication are finished, also when no key is configured.
C10_OneSendAttempt ==
    /\ sendAttempts <= 1
    /\ (pc = "done" => sendAttempts = 1)
    /\ (sendAttempts = 1 =>
          /\ DedupFinished /\ pc # "format"
          /\ (KeySet => Len(requests) = NumQueries)
          /\ html # NoHtml)
    /\ (sendAttempts = 0 => sendResult = "pending" /\ smtp = "none")

\* C10 witness: no key is configured and the "no results" mail was attempted.
C10_Witness ==
    /\ pc = "done"
    /\ ~KeySet
    /\ sendAttempts = 1
    /\ html.noResults
====
